---- MODULE Spec2Model ----
(***************************************************************************)
(* Orbit semantic canvas backend: the embedding / cache / similarity core. *)
(*                                                                         *)
(*   backend/services/embedding_service.py  generate_embedding,            *)
(*                                          _features_to_vector            *)
(*   backend/services/claude_service.py     generate_card, evaluate_magnet *)
(*   backend/services/redis_service.py      store_card_embedding,          *)
(*                                          get_similarity_pairs           *)
(*   backend/main.py                        the four request handlers      *)
(*   backend/models/schemas.py              GeneratedCard                  *)
(*                                                                         *)
(* Numbers: a vector component is kept in tenths (1.0 is 10, 0.3 is 3), so  *)
(* the unnormalized vector is integral; a returned vector is the record    *)
(* [dim, v, n2, normalized]: dim components, the i-th being v[i] / sqrt(n2) *)
(* when normalized (n2 the squared norm of v) and v[i] / 10 when not.      *)
(* Strings that are only compared are TLA+ strings; strings that are       *)
(* concatenated into a cache key are sequences of one-character strings.  *)
(***************************************************************************)
EXTENDS Integers, Sequences, FiniteSets, TLC

VARIABLES
    now,          \* wall clock of the Redis server, in seconds
    ticks,        \* how often the clock has advanced
    cache,        \* Redis keys cache:<namespace>:<md5>, per namespace: key -> [val, exp]
    store,        \* Redis JSON documents card:<id>: id -> [title, category, summary, embedding]
    cards_store,  \* main.cards_store: id -> card.model_dump()
    minted,       \* the ids uuid4 has produced so far
    req,          \* the requests: slot -> handler state
    encIn,        \* encoder harness: (features, raw_text) under test
    encOut,       \* encoder harness: what _features_to_vector did with encIn
    simIn,        \* similarity harness: (stored vectors, card_ids, failing reads)
    simOut        \* similarity harness: what get_similarity_pairs returned

service == <<now, ticks, cache, store, cards_store, minted, req>>
harness == <<encIn, encOut, simIn, simOut>>
vars == <<service, harness>>

----------------------------------------------------------------------------
(* Bounds of the model *)

MaxReq == 2        \* requests handled in one behaviour
MaxTicks == 1      \* clock advances in one behaviour
MaxKw == 1         \* keywords in one keyword list of a drawn feature record
MaxIds == 4        \* length of a similarity request's list of card ids

----------------------------------------------------------------------------
(* Program constants *)

EMBEDDING_DIM == 256
EMBEDDING_TTL == 2592000
CARD_TTL == 604800
MAGNET_TTL == 3600

----------------------------------------------------------------------------
(* Python values *)

Range(s) == {s[i] : i \in DOMAIN s}

\* JSON scalars and lists as json.loads returns them
JStr(s) == [t |-> "str", s |-> s, n |-> 0, l |-> <<>>]
JNum(n) == [t |-> "num", s |-> "", n |-> n, l |-> <<>>]
JList(l) == [t |-> "list", s |-> "", n |-> 0, l |-> l]
JNull == [t |-> "null", s |-> "", n |-> 0, l |-> <<>>]

\* dict.get(key, default)
DictGet(d, k, default) == IF k \in DOMAIN d THEN d[k] ELSE default

\* str.lower() on the strings of the model
Lower(s) ==
    CASE s = "Hotel" -> "hotel"
      [] s = "RELAXING" -> "relaxing"
      [] s = "Evening" -> "evening"
      [] s = "Paris" -> "paris"
      [] s = "Cozy" -> "cozy"
      [] OTHER -> s

\* int(hashlib.md5(w.encode()).hexdigest(), 16) % 960; 960 = lcm(64, 80, 15),
\* so the residue decides h % 64, h % 80 and h % 15 alike
Md5Mod960(w) ==
    CASE w = "paris" -> 684
      [] w = "rome" -> 128
      [] w = "beach" -> 753
      [] w = "historic" -> 925
      [] w = "modern" -> 805
      [] w = "cozy" -> 900
      [] w = "bungalow" -> 569
      [] w = "hotel" -> 80
      [] w = "grand" -> 74
      [] w = "flight" -> 651
      [] w = "to" -> 433
      [] w = "quiet" -> 157
      [] w = "luxury" -> 951
      [] w = "airport" -> 648
      [] w = "downtown" -> 76
      [] w = "fast" -> 243
      [] w = "cheap" -> 644
      [] w = "milan" -> 767
      [] w = "nostalgic" -> 799

\* list.index(x) of a list without repeats, 0-based
IndexOf(list, x) == (CHOOSE i \in DOMAIN list : list[i] = x) - 1

\* an optional value: None is the empty sequence, a value x is <<x>>
None == <<>>
Some(x) == <<x>>

----------------------------------------------------------------------------
(* Vector Encoder: embedding_service._features_to_vector *)

categories == <<"hotel", "flight", "restaurant", "activity", "transit", "note", "other", "unknown">>
moods == <<"relaxing", "adventurous", "romantic", "family", "cultural", "party", "business", "casual">>
times == <<"morning", "afternoon", "evening", "night", "anytime", "unknown">>

\* A vector of EMBEDDING_DIM floats is kept as the function from the indices
\* of its nonzero components to their values: np.zeros(EMBEDDING_DIM) is the
\* empty function. The encoder threads [exc, vec]: exc is the exception
\* raised so far ("" for none)
ZeroVec == <<>>

\* vec[i]
At(vec, i) == IF i \in DOMAIN vec THEN vec[i] ELSE 0

\* vec with component idx set to value
With(vec, idx, value) ==
    [i \in (IF value = 0 THEN DOMAIN vec \ {idx} ELSE DOMAIN vec \cup {idx}) |->
        IF i = idx THEN value ELSE vec[i]]

\* vec[idx] = value (IndexError outside the array)
VecSet(st, idx, value) ==
    IF st.exc # "" THEN st
    ELSE IF idx \notin 0..(EMBEDDING_DIM - 1) THEN [st EXCEPT !.exc = "IndexError"]
    ELSE [st EXCEPT !.vec = With(@, idx, value)]

\* vec[idx] += value
VecAdd(st, idx, value) ==
    IF st.exc # "" THEN st
    ELSE IF idx \notin 0..(EMBEDDING_DIM - 1) THEN [st EXCEPT !.exc = "IndexError"]
    ELSE [st EXCEPT !.vec = With(@, idx, At(@, idx) + value)]

\* for i in range(width): vec[base + i] = 1.0
RECURSIVE SetBlock(_, _, _, _)
SetBlock(st, base, width, i) ==
    IF i = width THEN st
    ELSE SetBlock(VecSet(st, base + i, 10), base, width, i + 1)

\* value.lower(): AttributeError unless the value is a string
LowerOf(v) ==
    IF v.t = "str" THEN [exc |-> "", s |-> Lower(v.s)]
    ELSE [exc |-> "AttributeError", s |-> ""]

\* for kw in value: TypeError unless the value is a list (of strings)
IterOf(v) ==
    IF v.t = "list" THEN [exc |-> "", l |-> v.l]
    ELSE [exc |-> "TypeError", l |-> <<>>]

\* dtype=np.float32: a component of the model is a number of tenths, or Huge,
\* which stands for a finite float32 above 1.8e19 (1e20, say), whose square is
\* beyond the largest float32, 3.4e38; Inf stands for the float32 infinity
Huge == 2147483646
Inf == 2147483647

\* x / 5.0 in tenths; the fifth of a number of the size of 5e20 is Huge
Fifth(n) == IF n = Huge THEN Huge ELSE 2 * n

\* float(value): TypeError unless the value is a number
FloatOf(v) ==
    IF v.t = "num" THEN [exc |-> "", n |-> v.n]
    ELSE [exc |-> "TypeError", n |-> 0]

\* a fallback index one past the last category
cat_idxPastEnd(cat) == IF cat \in Range(categories) THEN IndexOf(categories, cat) ELSE 8

\* categories.index(cat) if cat in categories else 7
cat_idx(cat) == IF cat \in Range(categories) THEN IndexOf(categories, cat) ELSE 7

\* moods.index(mood) if mood in moods else 7
mood_idx(mood) == IF mood \in Range(moods) THEN IndexOf(moods, mood) ELSE 7

\* for w in words: vec[base + md5(w) % width] += weight
RECURSIVE HashWords(_, _, _, _, _)
HashWords(st, words, base, width, weight) ==
    IF words = <<>> \/ st.exc # "" THEN st
    ELSE HashWords(VecAdd(st, base + (Md5Mod960(Head(words)) % width), weight),
                   Tail(words), base, width, weight)

\* Category encoding (dims 0-31)
EncodeCategory(st, features) ==
    LET cat == LowerOf(DictGet(features, "category", JStr("other")))
    IN  IF st.exc # "" THEN st
        ELSE IF cat.exc # "" THEN [st EXCEPT !.exc = cat.exc]
        ELSE SetBlock(st, cat_idx(cat.s) * 4, 4, 0)

\* Location keywords (dims 32-95) and vibe keywords (dims 96-175)
EncodeKeywords(st, features, key, base, width) ==
    LET kws == IterOf(DictGet(features, key, JList(<<>>)))
    IN  IF st.exc # "" THEN st
        ELSE IF kws.exc # "" THEN [st EXCEPT !.exc = kws.exc]
        ELSE HashWords(st, [i \in DOMAIN kws.l |-> Lower(kws.l[i])], base, width, 10)

\* Numeric features (dims 176-185): float(x) / 5.0, in tenths 2 * x
EncodeNumeric(st, features, key, idx) ==
    LET x == FloatOf(DictGet(features, key, JNum(0)))
    IN  IF st.exc # "" THEN st
        ELSE IF x.exc # "" THEN [st EXCEPT !.exc = x.exc]
        ELSE VecSet(st, idx, Fifth(x.n))

\* Mood encoding (dims 186-209)
EncodeMood(st, features) ==
    LET mood == LowerOf(DictGet(features, "mood", JStr("casual")))
    IN  IF st.exc # "" THEN st
        ELSE IF mood.exc # "" THEN [st EXCEPT !.exc = mood.exc]
        ELSE SetBlock(st, 186 + mood_idx(mood.s) * 3, 3, 0)

\* time_of_day encoding (dims 210-240): no block for a value outside times
EncodeTime(st, features) ==
    LET tod == LowerOf(DictGet(features, "time_of_day", JStr("anytime")))
    IN  IF st.exc # "" THEN st
        ELSE IF tod.exc # "" THEN [st EXCEPT !.exc = tod.exc]
        ELSE IF tod.s \in Range(times)
             THEN SetBlock(st, 210 + IndexOf(times, tod.s) * 5, 5, 0)
             ELSE st

\* Raw text hash (dims 241-255): raw_text.lower().split(), 0.3 a word
EncodeText(st, raw_text) ==
    HashWords(st, [i \in DOMAIN raw_text |-> Lower(raw_text[i])], 241, 15, 3)

\* sum of a[i] * b[i] over the indices in S
RECURSIVE DotOver(_, _, _)
DotOver(a, b, S) ==
    IF S = {} THEN 0
    ELSE LET i == CHOOSE x \in S : TRUE
         IN  a[i] * b[i] + DotOver(a, b, S \ {i})

\* np.dot(vec_a, vec_b) of the unnormalized components
Dot(a, b) == DotOver(a, b, DOMAIN a \cap DOMAIN b)

\* np.linalg.norm(vec) squared: sqrt(vec.dot(vec)) in float32, infinite when
\* the square of a component is
SumSq(vec) == IF Huge \in Range(vec) THEN Inf ELSE Dot(vec, vec)

\* if norm > 0: vec = vec / norm
Normalize(vec) ==
    LET n2 == SumSq(vec)
    IN  [dim |-> EMBEDDING_DIM, v |-> vec, n2 |-> n2, normalized |-> n2 > 0]

\* Normalize and return vec.tolist(): [exc, vector], vector None when the
\* encoding raised
tolist(st) ==
    IF st.exc # "" THEN [exc |-> st.exc, vector |-> None]
    ELSE [exc |-> "", vector |-> Some(Normalize(st.vec))]

\* _features_to_vector: [exc, vector], vector None when it raised
_features_to_vector(features, raw_text) ==
    LET s0 == [exc |-> "", vec |-> ZeroVec]
        s1 == EncodeCategory(s0, features)
        s2 == EncodeKeywords(s1, features, "location_keywords", 32, 64)
        s3 == EncodeKeywords(s2, features, "vibe_keywords", 96, 80)
        s4 == EncodeNumeric(s3, features, "price_level", 176)
        s5 == EncodeNumeric(s4, features, "quality_signal", 177)
        s6 == EncodeMood(s5, features)
        s7 == EncodeTime(s6, features)
        s8 == EncodeText(s7, raw_text)
    IN  tolist(s8)


----------------------------------------------------------------------------
(* Strings that go into cache keys, and the keys *)

\* ord(c) of the characters of the model
Ord(c) ==
    CASE c = "," -> 44
      [] c = ":" -> 58
      [] c = "a" -> 97
      [] c = "b" -> 98
      [] c = "c" -> 99
      [] c = "d" -> 100
      [] c = "q" -> 113
      [] c = "x" -> 120
      [] c = "y" -> 121
      [] c = "z" -> 122

\* s < t for Python strings: lexicographic by code point
RECURSIVE StrLess(_, _)
StrLess(s, t) ==
    IF t = <<>> THEN FALSE
    ELSE IF s = <<>> THEN TRUE
    ELSE IF Head(s) = Head(t) THEN StrLess(Tail(s), Tail(t))
    ELSE Ord(Head(s)) < Ord(Head(t))

\* sorted(list of strings)
RECURSIVE Sorted(_)
Sorted(l) ==
    IF l = <<>> THEN <<>>
    ELSE LET rest == Sorted(Tail(l))
             x == Head(l)
             k == Cardinality({i \in DOMAIN rest : StrLess(rest[i], x)})
         IN  SubSeq(rest, 1, k) \o <<x>> \o SubSeq(rest, k + 1, Len(rest))

\* sep.join(list of strings)
RECURSIVE Join(_, _)
Join(l, sep) ==
    IF l = <<>> THEN <<>>
    ELSE IF Len(l) = 1 THEN l[1]
    ELSE l[1] \o sep \o Join(Tail(l), sep)

\* hashlib.md5(s.encode()).hexdigest(): the digest of s, taken collision-free
Md5Hex(s) == <<"md5">> \o s

\* f"cache:embedding:{md5(text)}"
EmbeddingKey(text) == Md5Hex(text)

\* f"cache:card:{md5(f'{content_type}:{content}')}"
CardKey(content_type, content) == Md5Hex(content_type \o <<":">> \o content)

\* the ids in the order of the request
MagnetCardIdsUnsorted(cards) == [i \in DOMAIN cards |-> DictGet(cards[i], "id", <<>>)]

\* card_ids = sorted([str(c.get("id", "")) for c in cards])
MagnetCardIds(cards) == Sorted([i \in DOMAIN cards |-> DictGet(cards[i], "id", <<>>)])

\* f"cache:magnet:{md5(f'{constraint}:{','.join(card_ids)}')}"
MagnetKey(constraint, cards) ==
    Md5Hex(constraint \o <<":">> \o Join(MagnetCardIds(cards), <<",">>))

----------------------------------------------------------------------------
(* The inputs and the oracle's replies *)

Req == 1..MaxReq

\* str(uuid.uuid4())[:8]: an id that was not returned before, the ids taken
\* in a fixed order
Uuids == <<(<<"a">>), (<<"b">>), (<<"c">>), (<<"d">>)>>
uuid4 == Uuids[Cardinality(minted) + 1]

\* the card id a client names when it embeds a text
EmbedIds == {<<"b">>}

\* texts, as their words
TextBungalow == <<"Cozy", "beach", "bungalow">>
TextHotel == <<"grand", "hotel">>
Texts == {TextBungalow, TextHotel}

\* (content_type, content) of a drop, the constraint of a magnet, and the
\* lists of card ids of a gravity and of a magnet request
CardInputs == {<<(<<"a">>), (<<"c">>)>>}
Constraints == {<<"q">>}
GravityInputs == {<<(<<"a">>)>>, <<(<<"a">>), (<<"b">>)>>}
MagnetInputs == {<<>>, <<(<<"a">>), (<<"b">>), (<<"c">>)>>,
                 <<(<<"c">>), (<<"a">>), (<<"b">>)>>}

\* feature records the extractor may answer with
FeaturesHotel ==
    [category |-> JStr("Hotel"), location_keywords |-> JList(<<"Paris">>),
     vibe_keywords |-> JList(<<"cozy", "quiet">>), price_level |-> JNum(3),
     quality_signal |-> JNum(4), mood |-> JStr("relaxing"),
     time_of_day |-> JStr("evening")]
FeaturesFlight ==
    [category |-> JStr("flight"), mood |-> JStr("business"), price_level |-> JNum(1)]

Features == {FeaturesHotel, FeaturesFlight}

ExtractorReplies ==
    {[ok |-> FALSE, features |-> <<>>]}
    \cup {[ok |-> TRUE, features |-> f] : f \in Features}

\* vector = _features_to_vector(features, text), tabulated over the feature
\* records and the texts above
FeatureVectors == [f \in Features, t \in Texts |-> _features_to_vector(f, t)]

\* card JSON the oracle may answer with
CardDataBungalow ==
    [title |-> <<"Beach", "Bungalow">>, summary |-> <<"cozy">>, category |-> "hotel",
     icon |-> "H", color |-> "#6366f1", time_of_day |-> "evening",
     widgets |-> <<[type |-> "rating", label |-> "Stars", value |-> "4"]>>,
     semantic_text |-> TextBungalow]
CardDataHotel ==
    [title |-> <<"Grand", "Hotel">>, summary |-> <<"grand">>, category |-> "hotel",
     icon |-> "H", color |-> "#6366f1", widgets |-> <<>>,
     semantic_text |-> TextHotel]

CardReplies ==
    {[ok |-> FALSE, card_data |-> <<>>]}
    \cup {[ok |-> TRUE, card_data |-> d] : d \in {CardDataBungalow, CardDataHotel}}

\* relevance arrays the oracle may answer with for the cards it was shown
MagnetReplies(cards) ==
    {[ok |-> FALSE, results |-> <<>>]}
    \cup {[ok |-> TRUE,
           results |-> [i \in DOMAIN cards |-> [id |-> cards[i].id, relevance |-> v]]] :
            v \in {0, 10}}

SeqsUpTo(S, n) == UNION {[1..k -> S] : k \in 0..n}

----------------------------------------------------------------------------
(* Redis: the cache namespaces (GET / SETEX) and the JSON documents *)

\* json.dumps / json.loads of the payloads (lists of floats, dicts of strings):
\* the text of a payload, and the payload read back from its text
json_dumps(x) == [json |-> x]
json_loads(text) == text.json

Put(f, k, v) == [x \in DOMAIN f \cup {k} |-> IF x = k THEN v ELSE f[x]]

\* a GET that finds no key
redis_getNothing(c, ns, key) == None

\* redis_client.get(cache_key): None for a key that is absent (or has expired)
redis_get(c, ns, key) == IF key \in DOMAIN c[ns] THEN Some(c[ns][key].val) ELSE None

\* redis_client.setex(cache_key, ttl, value)
redis_setex(c, ns, key, ttl, value) ==
    [c EXCEPT ![ns] = Put(@, key, [val |-> value, exp |-> now + ttl])]

\* a Redis that never drops a key
UnexpiredNever(c, t) == c

\* the keys Redis still holds at time t
Unexpired(c, t) ==
    [ns \in DOMAIN c |-> [k \in {x \in DOMAIN c[ns] : c[ns][x].exp > t} |-> c[ns][k]]]

----------------------------------------------------------------------------
(* One call of a memoized operation, as the request that makes it sees it *)

\* state: "none" (not called), "pending" (awaiting the oracle), "hit", "miss"
\*        (computed by the oracle), "empty" (nothing to evaluate), "raised"
\* readErr / writeErr: the exception the cache read / write block caught
\* calls: oracle invocations; oracleOk: the oracle answered with usable JSON;
\* computed: what the oracle computation produced
\* ret: the value returned; exc: the exception raised to the caller
\* wrote: the SETEX the call performed; healthy: Redis was answering in every
\*        step of the call
\* begun / done: the other requests whose call on the same key had begun /
\*        had ended when this call began
NoCall ==
    [state |-> "none", key |-> <<>>, arg |-> <<>>, healthy |-> TRUE,
     readErr |-> "", writeErr |-> "", calls |-> 0, oracleOk |-> TRUE,
     computed |-> None,
     ret |-> None, exc |-> "", wrote |-> None, begun |-> {}, done |-> {},
     readAt |-> 0, doneAt |-> 0]

Ended(call) == call.state \in {"hit", "miss", "empty", "raised"}

\* the call record once the oracle has answered
Called(call, reply, cacheOk) ==
    [call EXCEPT !.calls = @ + 1, !.doneAt = now,
                 !.oracleOk = reply.ok, !.healthy = @ /\ cacheOk]

\* the end of a memoized operation, [cache, call]: the computation raised
\* (exc), or the cache save sv raised, or the computed value is returned
EndCall(c, called, exc, computed, sv) ==
    IF exc # ""
    THEN [cache |-> c,
          call |-> [called EXCEPT !.state = "raised", !.exc = exc]]
    ELSE IF sv.exc # ""
    THEN [cache |-> sv.cache,
          call |-> [called EXCEPT !.state = "raised", !.exc = sv.exc,
                                  !.computed = computed]]
    ELSE [cache |-> sv.cache,
          call |-> [called EXCEPT !.state = "miss", !.computed = computed,
                                  !.ret = computed, !.writeErr = sv.err,
                                  !.wrote = sv.wrote]]

OthersBegun(r, op, key) ==
    {q \in DOMAIN req \ {r} : req[q][op].state # "none" /\ req[q][op].key = key}

OthersDone(r, op, key) ==
    {q \in DOMAIN req \ {r} : Ended(req[q][op]) /\ req[q][op].key = key}

BeginCall(r, op, key, arg, cacheOk, readErr) ==
    [NoCall EXCEPT !.state = "pending", !.key = key, !.arg = arg,
                   !.healthy = cacheOk, !.readErr = readErr,
                   !.begun = OthersBegun(r, op, key),
                   !.done = OthersDone(r, op, key), !.readAt = now]

----------------------------------------------------------------------------
(* embedding_service.generate_embedding *)

\* a cache check that reads under another key than the save writes
EmbeddingCacheCheckOtherKey(c, text, cacheOk) ==
    IF ~cacheOk THEN [cached |-> None, err |-> "ConnectionError"]
    ELSE LET cached_data == redis_get(c, "embedding", EmbeddingKey(<<"text">> \o text))
         IN  [cached |-> IF cached_data # None
                         THEN Some(json_loads(cached_data[1])) ELSE None,
              err |-> ""]

\* 1. Check Redis cache first: [cached, err]; an exception is printed, not raised
EmbeddingCacheCheck(c, text, cacheOk) ==
    IF ~cacheOk THEN [cached |-> None, err |-> "ConnectionError"]
    ELSE LET cached_data == redis_get(c, "embedding", EmbeddingKey(text))
         IN  [cached |-> IF cached_data # None
                         THEN Some(json_loads(cached_data[1])) ELSE None,
              err |-> ""]

\* an extraction that answers a failed reply with the zero vector
ExtractVectorDefault(reply, text) ==
    IF ~reply.ok THEN [exc |-> "", vector |-> Some(Normalize(ZeroVec))]
    ELSE FeatureVectors[reply.features, text]

\* 2. Not in cache, call Claude: [exc, vector]; reply.ok is false when the
\*    request fails or the reply is no JSON
ExtractVector(reply, text) ==
    IF ~reply.ok THEN [exc |-> "ExtractionError", vector |-> None]
    ELSE FeatureVectors[reply.features, text]

\* a cache save outside any try block
EmbeddingCacheSaveUnguarded(c, text, vector, cacheOk) ==
    IF ~cacheOk
    THEN [cache |-> c, err |-> "", exc |-> "ConnectionError", wrote |-> None]
    ELSE [cache |-> redis_setex(c, "embedding", EmbeddingKey(text), EMBEDDING_TTL,
                                json_dumps(vector)),
          err |-> "", exc |-> "",
          wrote |-> Some([key |-> EmbeddingKey(text), exp |-> now + EMBEDDING_TTL])]

\* 3. Save to Redis cache (expire after 30 days): [cache, err, exc, wrote]
EmbeddingCacheSave(c, text, vector, cacheOk) ==
    IF ~cacheOk
    THEN [cache |-> c, err |-> "ConnectionError", exc |-> "", wrote |-> None]
    ELSE [cache |-> redis_setex(c, "embedding", EmbeddingKey(text), EMBEDDING_TTL,
                                json_dumps(vector)),
          err |-> "", exc |-> "",
          wrote |-> Some([key |-> EmbeddingKey(text), exp |-> now + EMBEDDING_TTL])]

\* generate_embedding up to the await of the extractor: the call record
generate_embedding_begin(c, r, text, cacheOk) ==
    LET chk == EmbeddingCacheCheck(c, text, cacheOk)
        call == BeginCall(r, "embCall", EmbeddingKey(text), text, cacheOk, chk.err)
    IN  IF chk.cached # None
        THEN [call EXCEPT !.state = "hit", !.ret = chk.cached, !.doneAt = now]
        ELSE call

\* generate_embedding, lines 74-84: the vector is saved and returned
EmbeddingReturn(c, called, ex, cacheOk) ==
    EndCall(c, called, ex.exc, ex.vector,
            EmbeddingCacheSave(c, called.arg, ex.vector[1], cacheOk))

\* generate_embedding from the extractor's reply on: [cache, call]
generate_embedding_resume(c, call, reply, cacheOk) ==
    EmbeddingReturn(c, Called(call, reply, cacheOk), ExtractVector(reply, call.arg),
                    cacheOk)

----------------------------------------------------------------------------
(* schemas.GeneratedCard and claude_service.generate_card *)

\* the fields class GeneratedCard declares
GeneratedCardFields ==
    {"id", "title", "summary", "category", "icon", "color", "widgets",
     "raw_input", "semantic_text"}

\* GeneratedCard(**kwargs): pydantic keeps the declared fields, ignores the rest
GeneratedCard(kwargs) == [f \in GeneratedCardFields |-> kwargs[f]]

\* card.model_dump(): the dict of the declared fields
model_dump(card) == [f \in DOMAIN card |-> card[f]]

\* the attributes the cache_value dict reads from the card
CacheValueAttrs ==
    {"title", "summary", "category", "icon", "color", "time_of_day", "widgets",
     "semantic_text"}

\* Widget(type=w["type"], label=w["label"], value=w.get("value"), ...)
BuildWidgets(ws) ==
    [i \in DOMAIN ws |->
        [type |-> ws[i].type, label |-> ws[i].label,
         value |-> DictGet(ws[i], "value", "None")]]

\* the card built from card_data (the oracle's JSON, or the cached dict)
CardFrom(card_data, id, content) ==
    GeneratedCard(
        [id |-> id, title |-> card_data.title, summary |-> card_data.summary,
         category |-> card_data.category, icon |-> card_data.icon,
         color |-> card_data.color,
         time_of_day |-> DictGet(card_data, "time_of_day", "anytime"),
         widgets |-> BuildWidgets(card_data.widgets), raw_input |-> content,
         semantic_text |-> card_data.semantic_text])

\* 1. Check Redis cache first: [cached, err]; on a hit the card is rebuilt
\*    with a new id
CardCacheCheck(c, content_type, content, id, cacheOk) ==
    IF ~cacheOk THEN [cached |-> None, err |-> "ConnectionError"]
    ELSE LET cached_data == redis_get(c, "card", CardKey(content_type, content))
         IN  [cached |-> IF cached_data # None
                         THEN Some(CardFrom(json_loads(cached_data[1]), id, content))
                         ELSE None,
              err |-> ""]

\* 2. Not in cache, call Claude: [exc, card]
BuildCard(reply, id, content) ==
    IF ~reply.ok THEN [exc |-> "ExtractionError", card |-> None]
    ELSE [exc |-> "", card |-> Some(CardFrom(reply.card_data, id, content))]

\* cache_value = {"title": card.title, ..., "time_of_day": card.time_of_day, ...}:
\* AttributeError for an attribute the card does not have
CardCacheValue(card) ==
    IF CacheValueAttrs \subseteq DOMAIN card
    THEN [exc |-> "", val |-> [a \in CacheValueAttrs |-> card[a]]]
    ELSE [exc |-> "AttributeError", val |-> <<>>]

\* 3. Save to Redis cache (expire after 7 days): [cache, err, exc, wrote];
\*    the dict is built inside the try block, before the SETEX
CardCacheSave(c, content_type, content, card, cacheOk) ==
    LET cv == CardCacheValue(card)
        key == CardKey(content_type, content)
    IN  IF cv.exc # ""
        THEN [cache |-> c, err |-> cv.exc, exc |-> "", wrote |-> None]
        ELSE IF ~cacheOk
        THEN [cache |-> c, err |-> "ConnectionError", exc |-> "", wrote |-> None]
        ELSE [cache |-> redis_setex(c, "card", key, CARD_TTL, json_dumps(cv.val)),
              err |-> "", exc |-> "",
              wrote |-> Some([key |-> key, exp |-> now + CARD_TTL])]

\* generate_card up to the await of the oracle: the call record
card_begin(c, r, content_type, content, id, cacheOk) ==
    LET chk == CardCacheCheck(c, content_type, content, id, cacheOk)
        call == BeginCall(r, "cardCall", CardKey(content_type, content),
                          <<content_type, content>>, cacheOk, chk.err)
    IN  IF chk.cached # None
        THEN [call EXCEPT !.state = "hit", !.ret = chk.cached, !.doneAt = now]
        ELSE call

\* generate_card, lines 147-166: the card is saved and returned
CardReturn(c, called, built, cacheOk) ==
    EndCall(c, called, built.exc, built.card,
            CardCacheSave(c, called.arg[1], called.arg[2], built.card[1], cacheOk))

\* generate_card from the oracle's reply on: [cache, call]
card_resume(c, call, reply, id, cacheOk) ==
    CardReturn(c, Called(call, reply, cacheOk), BuildCard(reply, id, call.arg[2]),
               cacheOk)

----------------------------------------------------------------------------
(* claude_service.evaluate_magnet *)

\* 1. Check Redis cache first: [cached, err]
MagnetCacheCheck(c, constraint, cards, cacheOk) ==
    IF ~cacheOk THEN [cached |-> None, err |-> "ConnectionError"]
    ELSE LET cached_data == redis_get(c, "magnet", MagnetKey(constraint, cards))
         IN  [cached |-> IF cached_data # None
                         THEN Some(json_loads(cached_data[1])) ELSE None,
              err |-> ""]

\* 2. Not in cache, call Claude: [exc, results]
MagnetResults(reply) ==
    IF ~reply.ok THEN [exc |-> "ExtractionError", results |-> None]
    ELSE [exc |-> "", results |-> Some(reply.results)]

\* 3. Save to Redis cache (expire after 1 hour): [cache, err, exc, wrote]
MagnetCacheSave(c, constraint, cards, results, cacheOk) ==
    IF ~cacheOk
    THEN [cache |-> c, err |-> "ConnectionError", exc |-> "", wrote |-> None]
    ELSE [cache |-> redis_setex(c, "magnet", MagnetKey(constraint, cards),
                                MAGNET_TTL, json_dumps(results)),
          err |-> "", exc |-> "",
          wrote |-> Some([key |-> MagnetKey(constraint, cards),
                          exp |-> now + MAGNET_TTL])]

\* evaluate_magnet up to the await of the oracle: the call record
magnet_begin(c, r, constraint, cards, cacheOk) ==
    IF cards = <<>>
    THEN [NoCall EXCEPT !.state = "empty", !.arg = <<constraint, cards>>,
                        !.ret = Some(<<>>), !.readAt = now, !.doneAt = now]
    ELSE LET chk == MagnetCacheCheck(c, constraint, cards, cacheOk)
             call == BeginCall(r, "magCall", MagnetKey(constraint, cards),
                               <<constraint, cards>>, cacheOk, chk.err)
         IN  IF chk.cached # None
             THEN [call EXCEPT !.state = "hit", !.ret = chk.cached, !.doneAt = now]
             ELSE call

\* evaluate_magnet, lines 228-236: the results are saved and returned
MagnetReturn(c, called, ev, cacheOk) ==
    EndCall(c, called, ev.exc, ev.results,
            MagnetCacheSave(c, called.arg[1], called.arg[2], ev.results[1], cacheOk))

\* evaluate_magnet from the oracle's reply on: [cache, call]
magnet_resume(c, call, reply, cacheOk) ==
    MagnetReturn(c, Called(call, reply, cacheOk), MagnetResults(reply), cacheOk)

----------------------------------------------------------------------------
(* redis_service: the vector store and the similarity engine *)

\* store_card_embedding: [store, exc]; ensure_index and json().set raise when
\* Redis does not answer, and nothing here catches it
store_card_embedding(st, card_id, title, category, summary, embedding, storeOk) ==
    IF ~storeOk THEN [store |-> st, exc |-> "ConnectionError"]
    ELSE [store |-> Put(st, card_id,
                        [title |-> title, category |-> category,
                         summary |-> summary, embedding |-> embedding]),
          exc |-> ""]

\* a dict that moves a key that is set again to the end
DictSetLast(d, k, v) ==
    LET others == {i \in DOMAIN d : d[i].k # k}
        kept == [j \in 1..Cardinality(others) |->
                    d[CHOOSE i \in others : Cardinality({x \in others : x < i}) = j - 1]]
    IN  Append(kept, [k |-> k, v |-> v])

\* a Python dict as the sequence of its items in insertion order:
\* d[k] = v keeps the place of a key that is already there
DictSet(d, k, v) ==
    IF \E i \in DOMAIN d : d[i].k = k
    THEN [i \in DOMAIN d |-> IF d[i].k = k THEN [k |-> k, v |-> v] ELSE d[i]]
    ELSE Append(d, [k |-> k, v |-> v])

\* a retrieval without the `if data` test: an absent document counts as a
\* vector of zeros
RECURSIVE FetchEmbeddingsUntested(_, _, _, _, _)
FetchEmbeddingsUntested(st, card_ids, fails, i, embeddings) ==
    IF i > Len(card_ids) THEN embeddings
    ELSE LET card_id == card_ids[i]
             data == IF card_id \in DOMAIN st
                     THEN st[card_id].embedding ELSE Normalize(ZeroVec)
         IN  IF i \in fails
             THEN FetchEmbeddingsUntested(st, card_ids, fails, i + 1, embeddings)
             ELSE FetchEmbeddingsUntested(st, card_ids, fails, i + 1,
                                          DictSet(embeddings, card_id, data))

\* Retrieve all embeddings: one read per element of card_ids; the reads at the
\* positions in fails raise and are skipped, an absent document gives None
RECURSIVE FetchEmbeddings(_, _, _, _, _)
FetchEmbeddings(st, card_ids, fails, i, embeddings) ==
    IF i > Len(card_ids) THEN embeddings
    ELSE LET card_id == card_ids[i]
             data == IF card_id \in DOMAIN st
                     THEN Some(st[card_id].embedding) ELSE None
         IN  IF i \in fails
             THEN FetchEmbeddings(st, card_ids, fails, i + 1, embeddings)
             ELSE IF data # None
             THEN FetchEmbeddings(st, card_ids, fails, i + 1,
                                  DictSet(embeddings, card_id, data[1]))
             ELSE FetchEmbeddings(st, card_ids, fails, i + 1, embeddings)

\* dot / (norm_a * norm_b) if both norms are positive, else 0.0; the value is
\* num / sqrt(den2)
Cosine(vec_a, vec_b) ==
    IF vec_a.normalized /\ vec_b.normalized
    THEN [num |-> Dot(vec_a.v, vec_b.v), den2 |-> vec_a.n2 * vec_b.n2]
    ELSE [num |-> 0, den2 |-> 1]

\* for i in range(len(ids)): for j in range(i + 1, len(ids)): pairs.append(...)
RECURSIVE PairsFrom(_, _, _)
PairsFrom(embeddings, i, j) ==
    IF i > Len(embeddings) THEN <<>>
    ELSE IF j > Len(embeddings) THEN PairsFrom(embeddings, i + 1, i + 2)
    ELSE <<[card_a |-> embeddings[i].k, card_b |-> embeddings[j].k,
            similarity |-> Cosine(embeddings[i].v, embeddings[j].v)]>>
         \o PairsFrom(embeddings, i, j + 1)

\* get_similarity_pairs: the list of pairs; redis.from_url makes the client
\* without connecting, so Redis is first spoken to in the per-id try block
get_similarity_pairs(st, card_ids, fails) ==
    IF Len(card_ids) < 2 THEN <<>>
    ELSE PairsFrom(FetchEmbeddings(st, card_ids, fails, 1, <<>>), 1, 2)


----------------------------------------------------------------------------
(* main.py: the request handlers *)

\* a request: op the endpoint, pc where its coroutine stands ("new", awaiting an
\* oracle, "done"), card the card claude_service.generate_card returned, the
\* calls of the memoized operations it made, storeWrite the id it wrote to the
\* vector store, storeExc the exception store_card_embedding raised, status
\* the HTTP status, raised the exception behind a 500, body the response
NewReq ==
    [op |-> "", pc |-> "new", card |-> None, card_id |-> <<>>, card_ids |-> <<>>,
     cardCall |-> NoCall, embCall |-> NoCall, magCall |-> NoCall,
     storeWrite |-> None, storeExc |-> "", status |-> 0, raised |-> "",
     body |-> None]

World(r) ==
    [cache |-> cache, store |-> store, cards_store |-> cards_store, rq |-> req[r]]

Commit(r, W) ==
    /\ cache' = W.cache
    /\ store' = W.store
    /\ cards_store' = W.cards_store
    /\ req' = [req EXCEPT ![r] = W.rq]

Respond(rq, status, body, raised) ==
    [rq EXCEPT !.pc = "done", !.status = status, !.body = body, !.raised = raised]

\* requests are numbered in the order they arrive
CanStart(r) == req[r].pc = "new" /\ \A q \in Req : q < r => req[q].pc # "new"

\* generate_card, lines 94-105: store the embedding; whatever is raised is
\* printed and the card is returned
GenerateCardStore(W, storeOk) ==
    LET card == W.rq.card[1]
        put == store_card_embedding(W.store, card.id, card.title, card.category,
                                    card.summary, W.rq.embCall.ret[1], storeOk)
        rq == [W.rq EXCEPT !.storeExc = put.exc,
                           !.storeWrite = IF put.exc = "" THEN Some(card.id) ELSE None]
    IN  [W EXCEPT !.store = put.store, !.rq = Respond(rq, 200, Some(card), "")]

\* generate_card, lines 88-93: keep the card in memory and embed its semantic_text
GenerateCardEmbed(W, r, cacheOk, storeOk) ==
    LET card == W.rq.card[1]
        call == generate_embedding_begin(W.cache, r, card.semantic_text, cacheOk)
        W1 == [W EXCEPT !.cards_store = Put(@, card.id, model_dump(card)),
                        !.rq.embCall = call]
    IN  IF call.state = "hit" THEN GenerateCardStore(W1, storeOk)
        ELSE [W1 EXCEPT !.rq.pc = "emb_oracle"]


\* POST /api/generate-card: claude_service.generate_card up to its await; on a
\* cache hit the handler runs on to the embedding
GenerateCard(r, content_type, content, id, cacheOk, storeOk) ==
    /\ CanStart(r)
    /\ LET call == card_begin(cache, r, content_type, content, id, cacheOk)
           rq == [req[r] EXCEPT !.op = "generate_card", !.cardCall = call]
       IN  IF call.state = "hit"
           THEN /\ Commit(r, GenerateCardEmbed(
                                [World(r) EXCEPT !.rq = [rq EXCEPT !.card = call.ret]],
                                r, cacheOk, storeOk))
                /\ minted' = minted \cup {id}
           ELSE /\ Commit(r, [World(r) EXCEPT !.rq = [rq EXCEPT !.pc = "card_oracle"]])
                /\ UNCHANGED minted
    /\ UNCHANGED <<now, ticks, harness>>

\* generate_card, lines 83-108, once claude_service.generate_card has ended:
\* the handler runs on to the embedding; a failed generation is a 500
GenerateCardGenerated(W, res, r, cacheOk, storeOk) ==
    LET W1 == [W EXCEPT !.cache = res.cache, !.rq.cardCall = res.call,
                        !.rq.card = res.call.ret]
    IN  IF res.call.state = "raised"
        THEN [W1 EXCEPT !.rq = Respond(@, 500, None, res.call.exc)]
        ELSE GenerateCardEmbed(W1, r, cacheOk, storeOk)

\* the card oracle answers inside generate_card
GenerateCardOracle(r, reply, id, cacheOk, storeOk) ==
    /\ req[r].op = "generate_card" /\ req[r].pc = "card_oracle"
    /\ Commit(r, GenerateCardGenerated(
                     World(r), card_resume(cache, req[r].cardCall, reply, id, cacheOk),
                     r, cacheOk, storeOk))
    /\ minted' = IF reply.ok THEN minted \cup {id} ELSE minted
    /\ UNCHANGED <<now, ticks, harness>>

\* generate_card, lines 93-105, once generate_embedding has ended: a failed
\* embedding is printed and the card is returned without a stored vector
GenerateCardReturn(W, res, storeOk) ==
    LET W1 == [W EXCEPT !.cache = res.cache, !.rq.embCall = res.call]
    IN  IF res.call.state = "raised"
        THEN [W1 EXCEPT !.rq = Respond(@, 200, @.card, "")]
        ELSE GenerateCardStore(W1, storeOk)

\* the extractor answers inside generate_card
GenerateCardEmbedded(r, reply, cacheOk, storeOk) ==
    /\ req[r].op = "generate_card" /\ req[r].pc = "emb_oracle"
    /\ Commit(r, GenerateCardReturn(
                     World(r),
                     generate_embedding_resume(cache, req[r].embCall, reply, cacheOk),
                     storeOk))
    /\ UNCHANGED <<now, ticks, minted, harness>>

\* embed_card, lines 116-125: store the embedding under the client's card_id;
\* whatever is raised becomes a 500
EmbedCardStore(W, storeOk) ==
    LET text == W.rq.embCall.arg
        put == store_card_embedding(W.store, W.rq.card_id, text, "unknown", text,
                                    W.rq.embCall.ret[1], storeOk)
        rq == [W.rq EXCEPT !.storeExc = put.exc,
                           !.storeWrite = IF put.exc = "" THEN Some(W.rq.card_id)
                                          ELSE None]
    IN  IF put.exc # ""
        THEN [W EXCEPT !.rq = Respond(rq, 500, None, put.exc)]
        ELSE [W EXCEPT !.store = put.store,
                       !.rq = Respond(rq, 200,
                                      Some([card_id |-> rq.card_id, success |-> TRUE]),
                                      "")]

\* POST /api/embed
EmbedCard(r, card_id, text, cacheOk, storeOk) ==
    /\ CanStart(r)
    /\ LET call == generate_embedding_begin(cache, r, text, cacheOk)
           rq == [req[r] EXCEPT !.op = "embed", !.card_id = card_id, !.embCall = call]
           W == [World(r) EXCEPT !.rq = rq]
       IN  IF call.state = "hit" THEN Commit(r, EmbedCardStore(W, storeOk))
           ELSE Commit(r, [W EXCEPT !.rq.pc = "emb_oracle"])
    /\ UNCHANGED <<now, ticks, minted, harness>>

\* embed_card, lines 115-125, once generate_embedding has ended: a failed
\* embedding is a 500
EmbedCardReturn(W, res, storeOk) ==
    LET W1 == [W EXCEPT !.cache = res.cache, !.rq.embCall = res.call]
    IN  IF res.call.state = "raised"
        THEN [W1 EXCEPT !.rq = Respond(@, 500, None, res.call.exc)]
        ELSE EmbedCardStore(W1, storeOk)

\* the extractor answers inside embed_card
EmbedCardEmbedded(r, reply, cacheOk, storeOk) ==
    /\ req[r].op = "embed" /\ req[r].pc = "emb_oracle"
    /\ Commit(r, EmbedCardReturn(
                     World(r),
                     generate_embedding_resume(cache, req[r].embCall, reply, cacheOk),
                     storeOk))
    /\ UNCHANGED <<now, ticks, minted, harness>>

\* POST /api/gravity: the pairs get_similarity_pairs returns (the handler's
\* except branch answers an empty list for anything it would raise)
GetGravity(r, card_ids, fails) ==
    /\ CanStart(r)
    /\ LET pairs == get_similarity_pairs(store, card_ids, fails)
           rq == [req[r] EXCEPT !.op = "gravity", !.card_ids = card_ids]
       IN  req' = [req EXCEPT ![r] = Respond(rq, 200, Some(pairs), "")]
    /\ UNCHANGED <<now, ticks, cache, store, cards_store, minted,
                   harness>>

\* apply_magnet, lines 160-165: the cards from memory, a stub for an unknown id
CardsData(card_ids) ==
    [i \in DOMAIN card_ids |->
        IF card_ids[i] \in DOMAIN cards_store THEN cards_store[card_ids[i]]
        ELSE [id |-> card_ids[i], title |-> <<"Unknown">>, summary |-> <<>>,
              category |-> "unknown"]]

\* MagnetResponse(results=[MagnetResult(card_id=r["id"], relevance=r["relevance"])])
MagnetResponse(results) ==
    [i \in DOMAIN results |->
        [card_id |-> results[i].id, relevance |-> results[i].relevance]]

\* POST /api/magnet
ApplyMagnet(r, constraint, card_ids, cacheOk) ==
    /\ CanStart(r)
    /\ LET call == magnet_begin(cache, r, constraint, CardsData(card_ids), cacheOk)
           rq == [req[r] EXCEPT !.op = "magnet", !.card_ids = card_ids,
                                !.magCall = call]
       IN  IF call.state \in {"hit", "empty"}
           THEN req' = [req EXCEPT ![r] =
                           Respond(rq, 200, Some(MagnetResponse(call.ret[1])), "")]
           ELSE req' = [req EXCEPT ![r] = [rq EXCEPT !.pc = "magnet_oracle"]]
    /\ UNCHANGED <<now, ticks, cache, store, cards_store, minted,
                   harness>>

\* apply_magnet, lines 167-176: the results are answered, a failed
\* evaluation is a 500
ApplyMagnetReturn(W, res) ==
    LET W1 == [W EXCEPT !.cache = res.cache, !.rq.magCall = res.call]
    IN  IF res.call.state = "raised"
        THEN [W1 EXCEPT !.rq = Respond(@, 500, None, res.call.exc)]
        ELSE [W1 EXCEPT !.rq = Respond(@, 200, Some(MagnetResponse(res.call.ret[1])),
                                       "")]

\* the magnet oracle answers
ApplyMagnetOracle(r, reply, cacheOk) ==
    /\ req[r].op = "magnet" /\ req[r].pc = "magnet_oracle"
    /\ Commit(r, ApplyMagnetReturn(World(r),
                                   magnet_resume(cache, req[r].magCall, reply, cacheOk)))
    /\ UNCHANGED <<now, ticks, minted, harness>>

\* time passes: Redis drops the keys whose expiry has come
Tick(d) ==
    /\ ticks < MaxTicks
    /\ now' = now + d
    /\ ticks' = ticks + 1
    /\ cache' = Unexpired(cache, now + d)
    /\ UNCHANGED <<store, cards_store, minted, req,
                   harness>>

----------------------------------------------------------------------------
(* The service *)

\* the service after start-up: Redis holds nothing, no request has arrived
InitService ==
    /\ now = 0
    /\ ticks = 0
    /\ cache = [embedding |-> <<>>, card |-> <<>>, magnet |-> <<>>]
    /\ store = <<>>
    /\ cards_store = <<>>
    /\ minted = {}
    /\ req = [r \in Req |-> NewReq]

Init ==
    /\ InitService
    /\ encIn = <<>> /\ encOut = <<>>
    /\ simIn = <<>> /\ simOut = <<>>

\* the service: requests arrive and the oracles answer; within the window of
\* a behaviour no cache entry reaches its expiry
Next ==
    \/ \E r \in Req, in \in CardInputs, cacheOk, storeOk \in BOOLEAN :
          GenerateCard(r, in[1], in[2], uuid4, cacheOk, storeOk)
    \/ \E r \in Req, reply \in CardReplies, cacheOk, storeOk \in BOOLEAN :
          GenerateCardOracle(r, reply, uuid4, cacheOk, storeOk)
    \/ \E r \in Req, reply \in ExtractorReplies, cacheOk, storeOk \in BOOLEAN :
          GenerateCardEmbedded(r, reply, cacheOk, storeOk)
    \/ \E r \in Req, card_id \in EmbedIds, text \in Texts, cacheOk, storeOk \in BOOLEAN :
          EmbedCard(r, card_id, text, cacheOk, storeOk)
    \/ \E r \in Req, reply \in ExtractorReplies, cacheOk, storeOk \in BOOLEAN :
          EmbedCardEmbedded(r, reply, cacheOk, storeOk)
    \/ \E r \in Req, card_ids \in GravityInputs, storeOk \in BOOLEAN :
          GetGravity(r, card_ids, IF storeOk THEN {} ELSE DOMAIN card_ids)
    \/ \E r \in Req, constraint \in Constraints, card_ids \in MagnetInputs,
          cacheOk \in BOOLEAN :
          ApplyMagnet(r, constraint, card_ids, cacheOk)
    \/ \E r \in Req, cacheOk \in BOOLEAN :
          /\ req[r].pc = "magnet_oracle"
          /\ \E reply \in MagnetReplies(req[r].magCall.arg[2]) :
                 ApplyMagnetOracle(r, reply, cacheOk)

Spec == Init /\ [][Next]_vars

\* the embed endpoint while time passes
NextEmbed ==
    \/ \E r \in Req, card_id \in EmbedIds, text \in Texts, cacheOk, storeOk \in BOOLEAN :
          EmbedCard(r, card_id, text, cacheOk, storeOk)
    \/ \E r \in Req, reply \in ExtractorReplies, cacheOk, storeOk \in BOOLEAN :
          EmbedCardEmbedded(r, reply, cacheOk, storeOk)
    \/ \E d \in {MAGNET_TTL, CARD_TTL, EMBEDDING_TTL} : Tick(d)

SpecEmbed == Init /\ [][NextEmbed]_vars

\* the embed and the magnet endpoint, with time passing between the steps
NextExpiry ==
    \/ \E r \in Req, card_id \in EmbedIds, text \in Texts, cacheOk, storeOk \in BOOLEAN :
          EmbedCard(r, card_id, text, cacheOk, storeOk)
    \/ \E r \in Req, reply \in ExtractorReplies, cacheOk, storeOk \in BOOLEAN :
          EmbedCardEmbedded(r, reply, cacheOk, storeOk)
    \/ \E r \in Req, constraint \in Constraints, card_ids \in MagnetInputs,
          cacheOk \in BOOLEAN :
          ApplyMagnet(r, constraint, card_ids, cacheOk)
    \/ \E r \in Req, cacheOk \in BOOLEAN :
          /\ req[r].pc = "magnet_oracle"
          /\ \E reply \in MagnetReplies(req[r].magCall.arg[2]) :
                 ApplyMagnetOracle(r, reply, cacheOk)
    \/ \E d \in {MAGNET_TTL, CARD_TTL, EMBEDDING_TTL} : Tick(d)

SpecExpiry == Init /\ [][NextExpiry]_vars

\* drops and magnet requests whose strings hold the separators of the keys:
\* type "a:b" with content "c" and type "a" with content "b:c"; the one id
\* "x,y" and the ids "x" and "y"
KeyCardInputs == {<<(<<"a", ":", "b">>), (<<"c">>)>>, <<(<<"a">>), (<<"b", ":", "c">>)>>}
KeyMagnetInputs == {<<(<<"x", ",", "y">>)>>, <<(<<"x">>), (<<"y">>)>>,
                    <<(<<"y">>), (<<"x">>)>>}

\* the card and the magnet endpoint on these inputs
NextKey ==
    \/ \E r \in Req, in \in KeyCardInputs, cacheOk, storeOk \in BOOLEAN :
          GenerateCard(r, in[1], in[2], uuid4, cacheOk, storeOk)
    \/ \E r \in Req, reply \in CardReplies, cacheOk, storeOk \in BOOLEAN :
          GenerateCardOracle(r, reply, uuid4, cacheOk, storeOk)
    \/ \E r \in Req, reply \in ExtractorReplies, cacheOk, storeOk \in BOOLEAN :
          GenerateCardEmbedded(r, reply, cacheOk, storeOk)
    \/ \E r \in Req, constraint \in Constraints, card_ids \in KeyMagnetInputs,
          cacheOk \in BOOLEAN :
          ApplyMagnet(r, constraint, card_ids, cacheOk)
    \/ \E r \in Req, cacheOk \in BOOLEAN :
          /\ req[r].pc = "magnet_oracle"
          /\ \E reply \in MagnetReplies(req[r].magCall.arg[2]) :
                 ApplyMagnetOracle(r, reply, cacheOk)

SpecKey == Init /\ [][NextKey]_vars

----------------------------------------------------------------------------
(* The Vector Encoder on its own: one feature record and one text *)

Absent == [t |-> "absent", s |-> "", n |-> 0, l |-> <<>>]

\* the dict with the keys that are present
DictOf(choice) == [k \in {x \in DOMAIN choice : choice[x] # Absent} |-> choice[k]]

KeywordLists(words) == {Absent} \cup {JList(l) : l \in SeqsUpTo(words, MaxKw)}

\* feature records as json.loads can return them: any subset of the keys, values
\* in and outside the enums, in lower and in mixed case, JSON null, and a
\* price level of the size of 5e20
EncFeatures ==
    {DictOf(choice) : choice \in
        [category : {Absent, JStr("hotel"), JStr("Hotel"), JStr("spa"), JNull},
         location_keywords : KeywordLists({"Paris", "rome", "milan"}),
         vibe_keywords : KeywordLists({"cozy", "nostalgic"}),
         price_level : {Absent, JNum(0), JNum(3), JNum(Huge)},
         mood : {Absent, JStr("RELAXING"), JStr("zen")},
         time_of_day : {Absent, JStr("Evening"), JStr("dusk")}]}

EncTexts == {<<>>, TextHotel, TextBungalow}

InitEnc ==
    /\ InitService
    /\ \E f \in EncFeatures, t \in EncTexts : encIn = [features |-> f, raw_text |-> t]
    /\ encOut = <<>>
    /\ simIn = <<>> /\ simOut = <<>>

Encode ==
    /\ encOut = <<>>
    /\ encOut' = <<_features_to_vector(encIn.features, encIn.raw_text)>>
    /\ UNCHANGED <<service, encIn, simIn, simOut>>

NextEnc == Encode

SpecEnc == InitEnc /\ [][NextEnc]_vars

----------------------------------------------------------------------------
(* The Similarity Engine on its own: one store and one request *)

SimIds == {<<"x">>, <<"y">>, <<"z">>}

\* the vector stored for an id
SimVector(id) ==
    CASE id = <<"x">> -> FeatureVectors[FeaturesHotel, TextHotel].vector[1]
      [] id = <<"y">> -> FeatureVectors[FeaturesFlight, TextHotel].vector[1]
      [] id = <<"z">> -> FeatureVectors[FeaturesHotel, TextBungalow].vector[1]

\* the stores: any of the ids may have a document
SimStores ==
    {[id \in S |-> [title |-> id, category |-> "unknown", summary |-> id,
                    embedding |-> SimVector(id)]] : S \in SUBSET SimIds}

InitSim ==
    /\ InitService
    /\ encIn = <<>> /\ encOut = <<>>
    /\ \E st \in SimStores, ids \in SeqsUpTo(SimIds, MaxIds) :
          \E F \in SUBSET DOMAIN ids :
             \* a store, a request list (ids may repeat) and the reads that raise
             simIn = [store |-> st, card_ids |-> ids, fails |-> F]
    /\ simOut = <<>>

SimilarityPairs ==
    /\ simOut = <<>>
    /\ simOut' = <<get_similarity_pairs(simIn.store, simIn.card_ids, simIn.fails)>>
    /\ UNCHANGED <<service, encIn, encOut, simIn>>

NextSim == SimilarityPairs

SpecSim == InitSim /\ [][NextSim]_vars

----------------------------------------------------------------------------
(* Encoder, vector store and Similarity Engine end to end: three texts are   *)
(* encoded and stored, and their pairs are asked for                        *)

\* what the extractor may say of a text of the given category, mood and
\* price level: keywords, time of day and quality signal are free
Classified(category, mood, price_level) ==
    {DictOf(choice) : choice \in
        [category : {JStr(category)}, mood : {JStr(mood)},
         price_level : {JNum(price_level)},
         location_keywords : {JList(l) : l \in SeqsUpTo({"paris"}, MaxKw)},
         vibe_keywords : {JList(l) : l \in SeqsUpTo({"cozy", "nostalgic"}, MaxKw)},
         time_of_day : {Absent, JStr("evening")},
         quality_signal : {Absent, JNum(5)}]}

DomTexts == {<<>>, TextHotel}

DomFeatures == Classified("hotel", "relaxing", 3) \cup Classified("flight", "business", 1)

\* _features_to_vector(features, raw_text), tabulated over the records and
\* texts above
DomVectors == [f \in DomFeatures, t \in DomTexts |-> _features_to_vector(f, t)]

\* the keywords of a record
Keywords(features) ==
    Range(features.location_keywords.l) \cup Range(features.vibe_keywords.l)

InitDom ==
    /\ InitService
    /\ \E fa, fb \in Classified("hotel", "relaxing", 3),
          fc \in Classified("flight", "business", 1), ta, tb, tc \in DomTexts :
          /\ Keywords(fa) \cap Keywords(fb) = {}
          /\ encIn = [x |-> [features |-> fa, raw_text |-> ta],
                      y |-> [features |-> fb, raw_text |-> tb],
                      z |-> [features |-> fc, raw_text |-> tc]]
    /\ encOut = <<>>
    /\ simIn = <<>> /\ simOut = <<>>

\* the store after the text in has been encoded and stored under card_id, as
\* embed_card stores it
Embedded(st, card_id, in) ==
    store_card_embedding(st, card_id, in.raw_text, "unknown", in.raw_text,
                         DomVectors[in.features, in.raw_text].vector[1], TRUE).store

\* the three texts are encoded and stored under the ids x, y and z
EmbedThree ==
    /\ simIn = <<>>
    /\ simIn' = [store |-> Embedded(Embedded(Embedded(<<>>, <<"x">>, encIn.x),
                                             <<"y">>, encIn.y),
                                    <<"z">>, encIn.z),
                 card_ids |-> <<(<<"x">>), (<<"y">>), (<<"z">>)>>, fails |-> {}]
    /\ UNCHANGED <<service, encIn, encOut, simOut>>

NextDom ==
    \/ EmbedThree
    \/ simIn # <<>> /\ SimilarityPairs

SpecDom == InitDom /\ [][NextDom]_vars

----------------------------------------------------------------------------
(* What is claimed of the service *)

MemoOps == {"cardCall", "embCall", "magCall"}

\* the call returned a value
Returned(call) == call.state \in {"hit", "miss"}

\* call c2 began after call c1 had ended, both on the same key, and no other
\* call on that key had begun by then
Sequential(r1, c1, r2, c2) ==
    /\ r1 # r2
    /\ Ended(c1) /\ Ended(c2)
    /\ c1.key = c2.key
    /\ c1.begun = {}
    /\ c2.begun = {r1} /\ c2.done = {r1}

\* C1: for each of the three memoized operations, a call during which Redis
\* failed on the read, on the write or on both still invokes the oracle, once,
\* and returns exactly what the oracle computation produced; the only
\* exception that can reach the caller is the oracle's own failure
CacheDegradeOnFailure ==
    \A r \in Req : \A op \in MemoOps :
        LET call == req[r][op]
        IN  (Ended(call) /\ ~call.healthy) =>
                /\ call.calls = 1
                /\ call.exc \in {"", "ExtractionError"}
                /\ call.oracleOk => /\ call.state = "miss"
                                    /\ call.computed # None
                                    /\ call.ret = call.computed
                /\ ~call.oracleOk => call.state = "raised" /\ call.exc = "ExtractionError"

\* Redis is down throughout a card generation with its embedding and
\* throughout a magnet evaluation, and each of the three calls returns
CacheDegradeOnFailureWitness ==
    \E r1, r2 \in Req :
        /\ req[r1].cardCall.state = "miss"
        /\ req[r1].cardCall.readErr = "ConnectionError"
        /\ ~req[r1].cardCall.healthy
        /\ req[r1].embCall.state = "miss"
        /\ req[r1].embCall.readErr = "ConnectionError"
        /\ req[r1].embCall.writeErr = "ConnectionError"
        /\ req[r2].magCall.state = "miss"
        /\ req[r2].magCall.readErr = "ConnectionError"
        /\ req[r2].magCall.writeErr = "ConnectionError"

\* C2: with a healthy cache and no expiry in between, two sequential
\* generate_embedding calls on the same text are a miss then a hit: the first
\* invokes the extractor once and writes the vector under the embedding key
\* of the text, the second does not invoke the extractor, and both return the
\* same vector
EmbeddingMissThenHit ==
    \A r1, r2 \in Req :
        LET c1 == req[r1].embCall
            c2 == req[r2].embCall
        IN  (/\ Sequential(r1, c1, r2, c2)
             /\ c1.healthy /\ c2.healthy
             /\ c1.oracleOk
             /\ c2.readAt < c1.doneAt + EMBEDDING_TTL) =>
                /\ c1.state = "miss" /\ c1.calls = 1
                /\ c1.key = EmbeddingKey(c1.arg)
                /\ c1.wrote = Some([key |-> c1.key, exp |-> c1.doneAt + EMBEDDING_TTL])
                /\ c2.state = "hit" /\ c2.calls = 0
                /\ c1.ret # None /\ c2.ret = c1.ret

\* a second call on the same text hits, some time after the first one missed
EmbeddingMissThenHitWitness ==
    \E r1, r2 \in Req :
        /\ Sequential(r1, req[r1].embCall, r2, req[r2].embCall)
        /\ req[r1].embCall.state = "miss" /\ req[r1].embCall.healthy
        /\ req[r2].embCall.state = "hit"
        /\ req[r2].embCall.readAt > req[r1].embCall.doneAt

\* C3: after generate_card has completed by calling the oracle with a healthy
\* cache, the card namespace holds an entry for (content_type, content), and
\* a later generate_card with the same inputs is served from the cache
\* without calling the oracle
CardMemoized ==
    /\ \A r \in Req :
          LET c == req[r].cardCall
          IN  (c.state = "miss" /\ c.healthy) =>
                  c.wrote # None /\ c.key \in DOMAIN cache.card
    /\ \A r1, r2 \in Req :
          LET c1 == req[r1].cardCall
              c2 == req[r2].cardCall
          IN  (/\ Sequential(r1, c1, r2, c2)
               /\ c1.state = "miss" /\ c1.healthy /\ c2.healthy) =>
                  c2.state = "hit" /\ c2.calls = 0

\* the fields the card cache keeps of a card
CachedContent(card) ==
    [f \in {"title", "summary", "category", "widgets", "semantic_text"} |-> card[f]]

\* C4: the payload in the card namespace never contains the card id, every
\* generate_card call returns a card with an id minted for that call, and two
\* drops of the same content, one after the other with a healthy cache,
\* yield cards with different ids and equal cached content
FreshIdentityOnCardHit ==
    /\ \A k \in DOMAIN cache.card : "id" \notin DOMAIN json_loads(cache.card[k].val)
    /\ \A r1, r2 \in Req :
          LET c1 == req[r1].cardCall
              c2 == req[r2].cardCall
          IN  (r1 # r2 /\ Returned(c1) /\ Returned(c2)) => c1.ret[1].id # c2.ret[1].id
    /\ \A r1, r2 \in Req :
          LET c1 == req[r1].cardCall
              c2 == req[r2].cardCall
          IN  (/\ Sequential(r1, c1, r2, c2)
               /\ Returned(c1) /\ Returned(c2)
               /\ c1.healthy /\ c2.healthy) =>
                  CachedContent(c1.ret[1]) = CachedContent(c2.ret[1])

\* s and t hold the same elements the same number of times
IsPermutation(s, t) ==
    /\ Len(s) = Len(t)
    /\ \A x \in Range(s) \cup Range(t) :
          Cardinality({i \in DOMAIN s : s[i] = x}) = Cardinality({i \in DOMAIN t : t[i] = x})

PermutationsOf(s) == {t \in [DOMAIN s -> Range(s)] : IsPermutation(s, t)}

\* C5: evaluate_magnet derives the same magnet key for every permutation of
\* the list of cards, so the result a call has cached is the entry a lookup
\* finds for every permutation of that call's list
MagnetKeyOrderIndependent ==
    \A r \in Req :
        LET c == req[r].magCall
        IN  c.state \in {"pending", "hit", "miss", "raised"} =>
                \A p \in PermutationsOf(c.arg[2]) :
                    /\ MagnetKey(c.arg[1], p) = c.key
                    /\ (c.state = "miss" /\ c.wrote # None) =>
                           MagnetCacheCheck(cache, c.arg[1], p, TRUE).cached # None

\* a magnet request is served from the entry that a request with the same
\* ids in another order has cached
MagnetKeyOrderIndependentWitness ==
    \E r1, r2 \in Req :
        /\ req[r1].magCall.state = "miss"
        /\ req[r2].magCall.state = "hit"
        /\ req[r1].card_ids # req[r2].card_ids
        /\ IsPermutation(req[r1].card_ids, req[r2].card_ids)
        /\ req[r2].magCall.ret = req[r1].magCall.ret

\* the read at position i of the similarity request returns a vector
Got(i) == i \notin simIn.fails /\ simIn.card_ids[i] \in DOMAIN simIn.store

\* the ids of the request of which some read returns a vector
Available == {simIn.card_ids[i] : i \in {j \in DOMAIN simIn.card_ids : Got(j)}}

\* the ids of a pair
Ends(pair) == {pair.card_a, pair.card_b}

\* C6: get_similarity_pairs returns an empty list for zero or one id; for a
\* longer request an id whose vector is absent from the store or whose reads
\* fail is in no returned pair, and the pairs among the remaining ids are
\* returned (none when fewer than two ids remain)
DegenerateSimilarity ==
    simOut # <<>> =>
        LET pairs == simOut[1]
        IN  /\ Len(simIn.card_ids) < 2 => pairs = <<>>
            /\ \A id \in Range(simIn.card_ids) \ Available :
                  \A k \in DOMAIN pairs : id \notin Ends(pairs[k])
            /\ Len(simIn.card_ids) >= 2 =>
                  \A a, b \in Available :
                      a # b => \E k \in DOMAIN pairs : Ends(pairs[k]) = {a, b}
            /\ Cardinality(Available) < 2 => pairs = <<>>

\* a request for three ids, the read of one of them fails though its vector
\* is stored, answered with the pair of the two other ids
DegenerateSimilarityWitness ==
    /\ simOut # <<>>
    /\ Len(simOut[1]) = 1
    /\ Cardinality(Range(simIn.card_ids)) = 3
    /\ \E i \in simIn.fails :
          /\ simIn.card_ids[i] \in DOMAIN simIn.store
          /\ simIn.card_ids[i] \notin Available

\* the position of the first read of id that returns a vector
First(id) ==
    CHOOSE i \in DOMAIN simIn.card_ids :
        /\ Got(i) /\ simIn.card_ids[i] = id
        /\ \A j \in 1..(i - 1) : ~(Got(j) /\ simIn.card_ids[j] = id)

\* C7: for any request list, repeated ids included, get_similarity_pairs
\* returns one pair for each unordered pair of distinct available ids and no
\* pair of an id with itself, in the order of first occurrence of the ids:
\* (ids[i], ids[j]) with i < j, grouped by i then by j, n*(n-1)/2 pairs for n
\* distinct available ids
PairEnumeration ==
    (simOut # <<>> /\ Len(simIn.card_ids) >= 2) =>
        LET pairs == simOut[1]
            n == Cardinality(Available)
        IN  /\ Len(pairs) * 2 = n * (n - 1)
            /\ \A k \in DOMAIN pairs :
                  /\ pairs[k].card_a # pairs[k].card_b
                  /\ Ends(pairs[k]) \subseteq Available
                  /\ First(pairs[k].card_a) < First(pairs[k].card_b)
            /\ \A k, l \in DOMAIN pairs :
                  k < l =>
                      \/ First(pairs[k].card_a) < First(pairs[l].card_a)
                      \/ /\ pairs[k].card_a = pairs[l].card_a
                         /\ First(pairs[k].card_b) < First(pairs[l].card_b)
            /\ \A a, b \in Available :
                  a # b => Cardinality({k \in DOMAIN pairs : Ends(pairs[k]) = {a, b}}) = 1

\* a request that repeats an id and names three available ids, answered with
\* three pairs
PairEnumerationWitness ==
    /\ simOut # <<>>
    /\ Len(simOut[1]) = 3
    /\ simIn.fails = {}
    /\ \E i, j \in DOMAIN simIn.card_ids : i < j /\ simIn.card_ids[i] = simIn.card_ids[j]

\* C8: in the step in which the extractor's call fails, generate_embedding
\* raises after that one invocation, returns no vector, the embedding cache
\* and the vector store are left as they were, and the request ends without
\* a write to the vector store
ExtractionFailureIsFatal ==
    [][\A r \in Req :
          LET c == req'[r].embCall
          IN  (req[r].embCall.state = "pending" /\ ~c.oracleOk) =>
                  /\ c.state = "raised" /\ c.exc = "ExtractionError"
                  /\ c.calls = 1
                  /\ c.ret = None /\ c.wrote = None
                  /\ cache' = cache
                  /\ store' = store
                  /\ req'[r].pc = "done" /\ req'[r].storeWrite = None]_vars

\* an embed request answered 500 after the extractor failed, and a card
\* returned without a stored vector after the extractor failed
ExtractionFailureIsFatalWitness ==
    \E r1, r2 \in Req :
        /\ req[r1].op = "embed" /\ req[r1].status = 500
        /\ req[r1].embCall.state = "raised" /\ ~req[r1].embCall.oracleOk
        /\ req[r2].op = "generate_card" /\ req[r2].status = 200
        /\ req[r2].embCall.state = "raised" /\ ~req[r2].embCall.oracleOk
        /\ req[r2].storeWrite = None

\* C9: a failure of the cache or of the vector store never reaches the
\* request layer as an error: a request that is answered with an error has
\* met an extraction failure
OnlyExtractionFailuresSurface ==
    \A r \in Req :
        req[r].status = 500 =>
            /\ req[r].raised = "ExtractionError"
            /\ req[r].storeExc = ""

\* C10: _features_to_vector returns a vector without raising for every
\* feature record: any subset of the keys, any value for category, mood and
\* time_of_day, any keyword lists
EncodingNeverFails ==
    encOut # <<>> => encOut[1].exc = "" /\ encOut[1].vector # None

\* the region of each facet, as the encoder's comments give them
Regions ==
    [category |-> 0..31, location |-> 32..95, vibe |-> 96..175, numeric |-> 176..185,
     mood |-> 186..209, time_of_day |-> 210..240, text |-> 241..255]

\* the encoder's state before any block is written
Blank == [exc |-> "", vec |-> ZeroVec]

\* the components each facet's block of _features_to_vector makes nonzero
FacetWrites(features, raw_text) ==
    [category |-> DOMAIN EncodeCategory(Blank, features).vec,
     location |-> DOMAIN EncodeKeywords(Blank, features, "location_keywords", 32, 64).vec,
     vibe |-> DOMAIN EncodeKeywords(Blank, features, "vibe_keywords", 96, 80).vec,
     numeric |-> DOMAIN EncodeNumeric(Blank, features, "price_level", 176).vec
                 \cup DOMAIN EncodeNumeric(Blank, features, "quality_signal", 177).vec,
     mood |-> DOMAIN EncodeMood(Blank, features).vec,
     time_of_day |-> DOMAIN EncodeTime(Blank, features).vec,
     text |-> DOMAIN EncodeText(Blank, raw_text).vec]

\* C11: the regions of the facets are pairwise disjoint and fill 0..255; the
\* encoder never indexes outside the array, and of a vector it returns every
\* nonzero component is one its facet wrote inside the facet's region, and
\* the vector has 256 components
RegionPartition ==
    /\ \A a, b \in DOMAIN Regions : a # b => Regions[a] \cap Regions[b] = {}
    /\ UNION {Regions[a] : a \in DOMAIN Regions} = 0..255
    /\ encOut # <<>> =>
          /\ encOut[1].exc # "IndexError"
          /\ encOut[1].exc = "" =>
                LET out == encOut[1].vector[1]
                    w == FacetWrites(encIn.features, encIn.raw_text)
                IN  /\ out.dim = 256
                    /\ DOMAIN out.v \subseteq 0..255
                    /\ \A f \in DOMAIN Regions : w[f] \subseteq Regions[f]
                    /\ DOMAIN out.v = UNION {w[f] : f \in DOMAIN Regions}

\* a record with an unknown category and keywords and words that hash to the
\* last index of their regions
RegionPartitionWitness ==
    /\ encOut # <<>>
    /\ encOut[1].exc = ""
    /\ "category" \in DOMAIN encIn.features
    /\ {28, 31, 95, 175, 255} \subseteq DOMAIN encOut[1].vector[1].v

\* a / b < c / d for naturals a, c and positive b, d, by continued fractions
\* (no product is formed)
RECURSIVE FracLess(_, _, _, _)
FracLess(a, b, c, d) ==
    IF a \div b # c \div d THEN a \div b < c \div d
    ELSE IF c % d = 0 THEN FALSE
    ELSE IF a % b = 0 THEN TRUE
    ELSE FracLess(d, c % d, b, a % b)

\* similarity s is less than similarity t, both num / sqrt(den2) with num >= 0
SimLess(s, t) == FracLess(s.num * s.num, s.den2, t.num * t.num, t.den2)

\* the similarity returned for the pair of ids a and b
SimilarityOf(a, b) ==
    LET pairs == simOut[1]
    IN  pairs[CHOOSE k \in DOMAIN pairs : Ends(pairs[k]) = {a, b}].similarity

\* C12: of three encoded texts, x and y classified hotel, relaxing, price 3
\* with disjoint keyword sets and z classified flight, business, price 1, the
\* similarity of x and y is greater than the similarity of x and z, whatever
\* the other fields are
CategoryMoodDominance ==
    simOut # <<>> =>
        SimLess(SimilarityOf(<<"x">>, <<"z">>), SimilarityOf(<<"x">>, <<"y">>))

\* the time-to-live of each namespace and the memoized operation that uses it
TTLOf == [card |-> CARD_TTL, magnet |-> MAGNET_TTL, embedding |-> EMBEDDING_TTL]
OpOf == [card |-> "cardCall", magnet |-> "magCall", embedding |-> "embCall"]

\* C13: in every step, an entry of a namespace either stays as it was, value
\* and expiry, or is the write of a call that had missed, with expiry the
\* time of the write plus the namespace's TTL; an entry leaves the cache only
\* at its expiry and none is held beyond it; a step in which a call hits
\* leaves the cache as it was
SimpleExpiry ==
    [][/\ \A ns \in DOMAIN TTLOf : \A k \in DOMAIN cache'[ns] :
             \/ k \in DOMAIN cache[ns] /\ cache'[ns][k] = cache[ns][k]
             \/ /\ cache'[ns][k].exp = now + TTLOf[ns]
                /\ \E r \in Req :
                      /\ req[r][OpOf[ns]].state = "pending"
                      /\ req'[r][OpOf[ns]].state = "miss"
                      /\ req'[r][OpOf[ns]].wrote =
                             Some([key |-> k, exp |-> now + TTLOf[ns]])
       /\ \A ns \in DOMAIN TTLOf :
             /\ \A k \in DOMAIN cache'[ns] : cache'[ns][k].exp > now'
             /\ \A k \in DOMAIN cache[ns] \ DOMAIN cache'[ns] : cache[ns][k].exp <= now'
       /\ (\E r \in Req : \E ns \in DOMAIN TTLOf :
              req[r][OpOf[ns]].state # "hit" /\ req'[r][OpOf[ns]].state = "hit")
             => cache' = cache]_vars

\* a magnet result was written and then hit, an hour has passed since the
\* write and the entry is gone
SimpleExpiryWitness ==
    \E r1, r2 \in Req :
        /\ req[r1].magCall.state = "miss" /\ req[r1].magCall.wrote # None
        /\ req[r2].magCall.state = "hit"
        /\ now = req[r1].magCall.doneAt + MAGNET_TTL
        /\ cache.magnet = <<>>

\* C14: over the generate-card and embed requests, a vector store record is
\* written only after the embedding of its entity succeeded, from the cache
\* or from a fresh extraction, never when it failed, and no two requests
\* write the record of the same entity id (a later request does not
\* overwrite the record an entity already has)
OneStoreWritePerEntity ==
    /\ \A r \in Req :
          /\ req[r].storeWrite # None => Returned(req[r].embCall)
          /\ req[r].embCall.state = "raised" => req[r].storeWrite = None
    /\ \A r1, r2 \in Req :
          (r1 # r2 /\ req[r1].storeWrite # None) =>
              req[r2].storeWrite # req[r1].storeWrite

\* two generate_embedding calls on the same text that ended, with Redis and
\* the extractor answering both
SameText(r1, r2) ==
    LET c1 == req[r1].embCall
        c2 == req[r2].embCall
    IN  /\ r1 # r2
        /\ Ended(c1) /\ Ended(c2) /\ c1.key = c2.key
        /\ c1.healthy /\ c2.healthy /\ c1.oracleOk /\ c2.oracleOk

\* C15: of the generate_embedding calls for one text with a healthy cache,
\* however they interleave, at most one invokes the extractor, and all of
\* them return the same vector, the one the cache holds afterwards
SingleExtractionPerText ==
    \A r1, r2 \in Req :
        LET c1 == req[r1].embCall
            c2 == req[r2].embCall
        IN  SameText(r1, r2) =>
                /\ c1.calls + c2.calls <= 1
                /\ c1.ret = c2.ret
                /\ c1.key \in DOMAIN cache.embedding
                /\ cache.embedding[c1.key].val = json_dumps(c1.ret[1])

\* C15, as the code has it: a call is served from the cache exactly when a
\* call on its text had written the entry before it read, and otherwise
\* invokes the extractor once and returns the vector of its own extraction;
\* a call that hits returns the vector of a call that had extracted, and the
\* cache holds the vector of one of the calls that extracted
ExtractionPerMiss ==
    \A r1, r2 \in Req :
        LET c1 == req[r1].embCall
            c2 == req[r2].embCall
            wrote == {q \in c2.done : /\ req[q].embCall.key = c2.key
                                       /\ req[q].embCall.wrote # None}
        IN  SameText(r1, r2) =>
                /\ c2.state = "hit" <=> wrote # {}
                /\ c2.state = "hit" =>
                      c2.calls = 0 /\ \E q \in wrote : c2.ret = req[q].embCall.computed
                /\ c2.state # "hit" =>
                      c2.state = "miss" /\ c2.calls = 1 /\ c2.ret = c2.computed
                /\ c1.key \in DOMAIN cache.embedding
                /\ \E q \in Req :
                      /\ req[q].embCall.key = c1.key
                      /\ req[q].embCall.state = "miss"
                      /\ cache.embedding[c1.key].val = json_dumps(req[q].embCall.ret[1])

\* two calls on one text, the second begun while the first awaited the
\* extractor: both invoke the extractor and return different vectors
ExtractionPerMissWitness ==
    \E r1, r2 \in Req :
        /\ SameText(r1, r2)
        /\ r1 \in req[r2].embCall.begun /\ r1 \notin req[r2].embCall.done
        /\ req[r1].embCall.calls = 1 /\ req[r2].embCall.calls = 1
        /\ req[r1].embCall.ret # req[r2].embCall.ret

\* a call that built its key
Keyed(call) == call.state \in {"pending", "hit", "miss", "raised"}

\* C16: two card calls build the same key only for the same content_type
\* and the same content, and two magnet calls only for the same constraint
\* and the same ids up to their order, so that requests which differ in where
\* a ':' or a ',' falls do not share a cache entry
CacheKeyInjective ==
    \A r1, r2 \in Req :
        LET c1 == req[r1].cardCall
            c2 == req[r2].cardCall
            m1 == req[r1].magCall
            m2 == req[r2].magCall
        IN  /\ (Keyed(c1) /\ Keyed(c2) /\ c1.key = c2.key) => c1.arg = c2.arg
            /\ (Keyed(m1) /\ Keyed(m2) /\ m1.key = m2.key) =>
                  /\ m1.arg[1] = m2.arg[1]
                  /\ IsPermutation(MagnetCardIdsUnsorted(m1.arg[2]),
                                    MagnetCardIdsUnsorted(m2.arg[2]))
            /\ (m2.state = "hit" /\ r1 \in m2.done /\ m1.wrote # None
                   /\ m2.ret = m1.ret) =>
                  Len(m2.ret[1]) = Len(req[r2].card_ids)

\* the components at base .. base + width - 1 of vec are 1.0
BlockSet(vec, base, width) == \A i \in 0..(width - 1) : At(vec, base + i) = 10

\* the block of a value: its index in the list, the index of the default
\* when the key is missing, 7 when the value is not in the list
BlockOf(features, key, list, default) ==
    IF key \notin DOMAIN features THEN IndexOf(list, default)
    ELSE IF Lower(features[key].s) \in Range(list)
         THEN IndexOf(list, Lower(features[key].s))
         ELSE 7

\* vec.tolist() holds only zeros: np.zeros as it was, or finite components
\* divided by an infinite norm
AllZero(vector) ==
    \/ vector.v = <<>>
    \/ vector.normalized /\ vector.n2 = Inf /\ Inf \notin Range(vector.v)

\* before normalization the vector the encoder returns has the 4 components
\* of the category block and the 3 of the mood block at 1.0, its norm is not
\* zero and the normalization branch is taken
BlocksSet ==
    (encOut # <<>> /\ encOut[1].exc = "") =>
        LET out == encOut[1].vector[1]
        IN  /\ BlockSet(out.v, 4 * BlockOf(encIn.features, "category", categories, "other"), 4)
            /\ BlockSet(out.v, 186 + 3 * BlockOf(encIn.features, "mood", moods, "casual"), 3)
            /\ out.n2 > 0
            /\ out.normalized

\* C17: for every record and text the encoder accepts, the vector before
\* normalization has a category block and a mood block at 1.0, so the norm is
\* not zero, the vector is normalized, and the vector returned is never the
\* all-zero vector
NoZeroVector ==
    /\ BlocksSet
    /\ (encOut # <<>> /\ encOut[1].exc = "") => ~AllZero(encOut[1].vector[1])

====
